---- MODULE Spec2Model ----
(***************************************************************************)
(* Model of research_bot.py: the Streamlit script that searches Google     *)
(* Scholar (scholarly) or the web (DuckDuckGo), normalizes the records,    *)
(* renders them and offers a BibTeX entry per record.                      *)
(*                                                                         *)
(* Python strings are sequences of one-character strings, so that split,   *)
(* join, slicing and formatting are computed as Python computes them.      *)
(* A Python dict is a function whose DOMAIN is the set of keys present.    *)
(* A Python value whose type matters is tagged (PyStr, PyInt, PyList,      *)
(* PyNone).  A call that may raise returns [ok |-> FALSE, exc |-> name].   *)
(***************************************************************************)
EXTENDS Integers, Sequences, FiniteSets, TLC

(***************************************************************************)
(* Bounds of the model.                                                    *)
(***************************************************************************)
\* longest academic provider sequence (2 * 10 + 1 pulls happen at the limit 10)
MaxProvLen == 21
\* longest web index (one more than the largest limit)
MaxWebLen == 11

(***************************************************************************)
(* Program constants.                                                      *)
(***************************************************************************)
MinNumResults == 1
MaxNumResults == 10
AbstractLimit == 200
SnippetLimit == 150

(***************************************************************************)
(* String literals of the program.                                         *)
(***************************************************************************)
Empty == <<>>
S_NA == <<"N", "/", "A">>
S_unknown == <<"u", "n", "k", "n", "o", "w", "n">>
S_Untitled == <<"U", "n", "t", "i", "t", "l", "e", "d">>
S_UnknownAuthor == <<"U", "n", "k", "n", "o", "w", "n", " ", "A", "u", "t", "h", "o", "r">>
S_CommaSpace == <<",", " ">>
S_And == <<" ", "a", "n", "d", " ">>
S_Ellipsis == <<".", ".", ".">>
S_AbstractLabel == <<"*", "*", "A", "b", "s", "t", "r", "a", "c", "t", ":", "*", "*", " ">>
S_SnippetLabel == <<"*", "*", "S", "n", "i", "p", "p", "e", "t", ":", "*", "*", " ">>

(***************************************************************************)
(* Python values and built-ins.                                            *)
(***************************************************************************)
PyStr(s) == [t |-> "str", s |-> s, n |-> 0, l |-> <<>>]
PyInt(k) == [t |-> "int", s |-> <<>>, n |-> k, l |-> <<>>]
PyList(xs) == [t |-> "list", s |-> <<>>, n |-> 0, l |-> xs]
PyNone == [t |-> "none", s |-> <<>>, n |-> 0, l |-> <<>>]

Ok(v) == [ok |-> TRUE, val |-> v, exc |-> "none"]
Raise(e) == [ok |-> FALSE, val |-> <<>>, exc |-> e]

\* dict.get(key, default)
Get(d, k, default) == IF k \in DOMAIN d THEN d[k] ELSE default

Min(a, b) == IF a <= b THEN a ELSE b

\* s[:n]
Slice(s, n) == SubSeq(s, 1, Min(n, Len(s)))

\* s[n:]
Drop(s, n) == SubSeq(s, n + 1, Len(s))

Digit(d) == CASE d = 0 -> "0" [] d = 1 -> "1" [] d = 2 -> "2" [] d = 3 -> "3"
              [] d = 4 -> "4" [] d = 5 -> "5" [] d = 6 -> "6" [] d = 7 -> "7"
              [] d = 8 -> "8" [] d = 9 -> "9"

\* str(n) of a non-negative int, as an f-string formats it
RECURSIVE IntToStr(_)
IntToStr(k) == IF k < 10 THEN <<Digit(k)>> ELSE IntToStr(k \div 10) \o <<Digit(k % 10)>>

\* the text an f-string substitutes for a value
Format(v) == CASE v.t = "str" -> v.s
               [] v.t = "int" -> IntToStr(v.n)
               [] v.t = "none" -> <<"N", "o", "n", "e">>

\* str.isspace() of one character
IsSpace(c) == c \in {" ", "\t", "\n"}

\* the index of the first occurrence of sep in s at or after i, 0 when there is none
RECURSIVE Find(_, _, _)
Find(s, sep, i) ==
    IF i + Len(sep) - 1 > Len(s) THEN 0
    ELSE IF SubSeq(s, i, i + Len(sep) - 1) = sep THEN i
    ELSE Find(s, sep, i + 1)

\* s.split(sep): never empty, keeps empty pieces
RECURSIVE SplitSep(_, _)
SplitSep(s, sep) ==
    LET i == Find(s, sep, 1)
    IN IF i = 0 THEN <<s>>
       ELSE <<SubSeq(s, 1, i - 1)>> \o SplitSep(Drop(s, i + Len(sep) - 1), sep)

\* the length of the longest prefix of s whose characters all (do not) satisfy IsSpace
RECURSIVE Span(_, _)
Span(s, space) ==
    IF s = <<>> \/ IsSpace(Head(s)) # space THEN 0 ELSE 1 + Span(Tail(s), space)

\* s.split(): runs of whitespace separate, no empty pieces
RECURSIVE SplitWS(_)
SplitWS(s) ==
    LET rest == Drop(s, Span(s, TRUE))
        w == Span(rest, FALSE)
    IN IF rest = <<>> THEN <<>>
       ELSE <<Slice(rest, w)>> \o SplitWS(Drop(rest, w))

\* sep.join(xs) of a list of strings
RECURSIVE Join(_, _)
Join(sep, xs) ==
    IF xs = <<>> THEN <<>>
    ELSE IF Len(xs) = 1 THEN xs[1]
    ELSE xs[1] \o sep \o Join(sep, Tail(xs))

\* sep.join(v): TypeError unless v is iterable (a str is iterated by character)
JoinValue(sep, v) ==
    CASE v.t = "list" -> Ok(Join(sep, v.l))
      [] v.t = "str" -> Ok(Join(sep, [i \in 1..Len(v.s) |-> <<v.s[i]>>]))
      [] OTHER -> Raise("TypeError")

\* re.sub(r'[{}]', '', s)
RemoveBraces(s) == SelectSeq(s, LAMBDA c : c \notin {"{", "}"})

(***************************************************************************)
(* generate_bibtex                                                         *)
(***************************************************************************)
\* year if year != 'N/A' else 'unknown'
YearOrUnknown(year) == IF year # PyStr(S_NA) THEN Format(year) ELSE S_unknown

FirstAuthorFirstWord(author_list) ==
    IF author_list # <<>> /\ author_list[1] # <<>>
    THEN LET words == SplitWS(author_list[1])
         IN IF words = <<>> THEN Raise("IndexError") ELSE Ok(words[1])
    ELSE Ok(S_unknown)

\* author_list[0].split()[-1] if author_list and author_list[0] else 'unknown'
FirstAuthor(author_list) ==
    IF author_list # <<>> /\ author_list[1] # <<>>
    THEN LET words == SplitWS(author_list[1])
         IN IF words = <<>> THEN Raise("IndexError") ELSE Ok(words[Len(words)])
    ELSE Ok(S_unknown)

BibtexKeyNoIndex(first_author, year, index) == first_author \o YearOrUnknown(year)

\* f"{first_author}{year if year != 'N/A' else 'unknown'}{index}"
BibtexKey(first_author, year, index) ==
    first_author \o YearOrUnknown(year) \o IntToStr(index)

\* the fields of the entry generate_bibtex(result, index) returns
generate_bibtex(result, index) ==
    LET title == RemoveBraces(Get(result, "Title", S_Untitled))
        authors == Get(result, "Authors", S_UnknownAuthor)
        year == Get(result, "Year", PyStr(S_NA))
        url == Get(result, "URL", Empty)
        author_list == SplitSep(authors, S_CommaSpace)
        bibtex_author == IF author_list # <<>> THEN Join(S_And, author_list)
                         ELSE S_UnknownAuthor
        first_author == FirstAuthor(author_list)
    IN IF ~first_author.ok THEN first_author
       ELSE Ok([key |-> BibtexKey(first_author.val, year, index),
                title |-> title,
                author |-> bibtex_author,
                year |-> YearOrUnknown(year),
                url |-> IF url # Empty THEN url ELSE S_NA])

(***************************************************************************)
(* Normalization of a scholarly record (the dict appended to results).     *)
(***************************************************************************)
NoDict == [k \in {} |-> <<>>]

Bib(pub) == Get(pub, "bib", NoDict)

\* pub.get('bib', {}).get('title', 'N/A')
NormTitle(pub) == Get(Bib(pub), "title", S_NA)

\* ", ".join(pub.get('bib', {}).get('author', []))
NormAuthors(pub) == JoinValue(S_CommaSpace, Get(Bib(pub), "author", PyList(<<>>)))

\* pub.get('bib', {}).get('pub_year', 'N/A')
NormYear(pub) == Get(Bib(pub), "pub_year", PyStr(S_NA))

\* pub.get('num_citations', 0)
NormCitedBy(pub) == Get(pub, "num_citations", 0)

\* pub.get('bib', {}).get('abstract', 'N/A')
NormAbstract(pub) == Get(Bib(pub), "abstract", S_NA)

\* pub.get('eprint_url', pub.get('pub_url', 'N/A'))
NormURL(pub) == Get(pub, "eprint_url", Get(pub, "pub_url", S_NA))

\* the dict built for results.append; the join is the only call that can raise
NormalizeScholar(pub) ==
    LET authors == NormAuthors(pub)
    IN IF ~authors.ok THEN authors
       ELSE Ok([Title |-> NormTitle(pub),
                Authors |-> authors.val,
                Year |-> NormYear(pub),
                CitedBy |-> NormCitedBy(pub),
                Abstract |-> NormAbstract(pub),
                URL |-> NormURL(pub)])

(***************************************************************************)
(* Rendering of the abstract and of the web snippet.                       *)
(***************************************************************************)
\* the abstract text shown: cut and suffixed only when longer than the limit
AbstractText(abstract) ==
    IF Len(abstract) > AbstractLimit THEN Slice(abstract, AbstractLimit) \o S_Ellipsis
    ELSE abstract

\* the argument of st.write: the label belongs to the first branch of the conditional
AbstractLine(abstract) ==
    IF Len(abstract) > AbstractLimit
    THEN S_AbstractLabel \o Slice(abstract, AbstractLimit) \o S_Ellipsis
    ELSE abstract

\* the snippet text shown: body[:150] followed by "..." whatever the length
SnippetText(body) == Slice(body, SnippetLimit) \o S_Ellipsis

SnippetLine(body) == S_SnippetLabel \o SnippetText(body)

(***************************************************************************)
(* The providers' indexes: the records a pull may yield.                   *)
(***************************************************************************)
Text(n, c) == [k \in 1..n |-> c]

S_Smith == <<"S", "m", "i", "t", "h">>
S_AnnSmith == <<"A", "n", "n", " ">> \o S_Smith
S_BobSmith == <<"B", "o", "b", " ">> \o S_Smith
S_Url == <<"h", "t", "t", "p", ":", "/", "/", "x">>

\* two well-formed records with the same first-author surname, and a record
\* whose author list is None, on which the join raises
PubA == [bib |-> [title |-> <<"A">>, author |-> PyList(<<S_AnnSmith>>),
                  pub_year |-> PyStr(<<"2", "1">>), abstract |-> <<"a">>],
         num_citations |-> 1, pub_url |-> S_Url]
PubB == [bib |-> [title |-> <<"B">>, author |-> PyList(<<S_BobSmith, S_AnnSmith>>),
                  pub_year |-> PyStr(<<"2">>), abstract |-> <<"b">>],
         num_citations |-> 2, pub_url |-> S_Url]
PubMalformed == [bib |-> [title |-> <<"M">>, author |-> PyNone,
                          pub_year |-> PyStr(<<"2">>), abstract |-> <<"m">>],
                 num_citations |-> 0, pub_url |-> S_Url]
ScholarIndex == {PubA, PubB, PubMalformed}

WebShort == [title |-> <<"X">>, body |-> <<"a", "b", "c">>, href |-> S_Url]
WebLong == [title |-> <<"Y">>, body |-> Text(SnippetLimit + 1, "y"), href |-> S_Url]
WebIndex == {WebShort, WebLong}

Scholar == "Google Scholar"
Web == "Web (DuckDuckGo)"
SearchTypes == {Scholar, Web}
Queries == {Empty, <<"q">>}

(***************************************************************************)
(* State of one run of the script, and of the function harness.            *)
(***************************************************************************)
VARIABLES
    pc,             \* position of the script run
    pressed,        \* st.button returned True in this run
    query,          \* st.text_input
    search_type,    \* st.sidebar.selectbox
    num_results,    \* st.sidebar.slider
    provLen,        \* number of items the provider's sequence holds
    pulled,         \* number of items taken from search_query
    count,          \* enumerate's counter
    i,              \* loop variable i
    results,        \* results
    web_results,    \* web_results
    exc,            \* the exception that ended the run, "none" otherwise
    warning,        \* st.warning was shown
    scholarInvoked, \* scholarly.search_pubs was called
    ddgsInvoked,    \* ddgs.text was called
    shown,          \* the lines written for the abstracts or snippets
    bibtex,         \* the entries handed to the BibTeX download buttons
    csvOffered,     \* the CSV download button was rendered
    fn              \* harness: inputs and outputs of the functions applied alone

vars == <<pc, pressed, query, search_type, num_results, provLen, pulled, count, i,
          results, web_results, exc, warning, scholarInvoked, ddgsInvoked, shown,
          bibtex, csvOffered, fn>>

FnIdle == [step |-> "idle"]

\* the script's first run: no button pressed, widgets at their defaults
Init ==
    /\ pc = "done"
    /\ pressed = FALSE
    /\ query = Empty
    /\ search_type = Scholar
    /\ num_results = 5
    /\ provLen = 0
    /\ pulled = 0
    /\ count = 0
    /\ i = 0
    /\ results = <<>>
    /\ web_results = <<>>
    /\ exc = "none"
    /\ warning = FALSE
    /\ scholarInvoked = FALSE
    /\ ddgsInvoked = FALSE
    /\ shown = <<>>
    /\ bibtex = <<>>
    /\ csvOffered = FALSE
    /\ fn = FnIdle

QueryGivenAlways(q) == TRUE

\* if query:
QueryGiven(q) == q # Empty

\* The user sets the widgets and presses Search: the script runs again from the top.
Press(q, st, n) ==
    /\ pc \in {"done", "crashed"}
    /\ pressed' = TRUE
    /\ query' = q
    /\ search_type' = st
    /\ num_results' = n
    /\ pulled' = 0
    /\ count' = 0
    /\ i' = 0
    /\ results' = <<>>
    /\ web_results' = <<>>
    /\ exc' = "none"
    /\ shown' = <<>>
    /\ bibtex' = <<>>
    /\ csvOffered' = FALSE
    /\ ddgsInvoked' = FALSE
    /\ IF ~QueryGiven(q)
       THEN /\ warning' = TRUE
            /\ scholarInvoked' = FALSE
            /\ provLen' = 0
            /\ pc' = "done"
       ELSE /\ warning' = FALSE
            /\ IF st = Scholar
               THEN \* search_query = scholarly.search_pubs(query); results = []
                    /\ scholarInvoked' = TRUE
                    /\ provLen' \in 0..MaxProvLen
                    /\ pc' = "for"
               ELSE /\ scholarInvoked' = FALSE
                    /\ provLen' \in 0..MaxWebLen
                    /\ pc' = "web"
    /\ UNCHANGED fn

\* for i, result in enumerate(search_query): the for statement advances the iterator
ForNext ==
    /\ pc = "for"
    /\ IF pulled < provLen
       THEN /\ pulled' = pulled + 1
            /\ i' = count
            /\ count' = count + 1
            /\ pc' = "check"
       ELSE /\ pc' = "display"
            /\ UNCHANGED <<pulled, i, count>>
    /\ UNCHANGED <<pressed, query, search_type, num_results, provLen, results,
                   web_results, exc, warning, scholarInvoked, ddgsInvoked, shown,
                   bibtex, csvOffered, fn>>

\* if i >= num_results: break
CheckLimit ==
    /\ pc = "check"
    /\ pc' = IF i >= num_results THEN "display" ELSE "inner"
    /\ UNCHANGED <<pressed, query, search_type, num_results, provLen, pulled, count,
                   i, results, web_results, exc, warning, scholarInvoked, ddgsInvoked,
                   shown, bibtex, csvOffered, fn>>

InnerStopIterationUncaught ==
    /\ pc' = "crashed"
    /\ exc' = "StopIteration"

\* except StopIteration: break
InnerStopIteration ==
    /\ pc' = "display"
    /\ exc' = exc

\* try: pub = next(search_query); results.append({...})
InnerNext ==
    /\ pc = "inner"
    /\ IF pulled < provLen
       THEN \E pub \in ScholarIndex :
              LET r == NormalizeScholar(pub)
              IN /\ pulled' = pulled + 1
                 /\ IF r.ok
                    THEN /\ results' = Append(results, r.val)
                         /\ pc' = "for"
                         /\ exc' = exc
                    ELSE /\ results' = results
                         /\ pc' = "crashed"
                         /\ exc' = r.exc
       ELSE /\ InnerStopIteration
            /\ UNCHANGED <<pulled, results>>
    /\ UNCHANGED <<pressed, query, search_type, num_results, provLen, count, i,
                   web_results, warning, scholarInvoked, ddgsInvoked, shown, bibtex,
                   csvOffered, fn>>

\* for idx, result in enumerate(results): ...; if results: CSV download button.
\* generate_bibtex raises IndexError on a result whose first author is blank, which
\* ends the run; ScholarIndex holds no such record, FnAuthors does.
Display ==
    /\ pc = "display"
    /\ LET entries == [k \in 1..Len(results) |-> generate_bibtex(results[k], k - 1)]
           failed == {k \in 1..Len(results) : ~entries[k].ok}
       IN IF failed = {}
          THEN /\ shown' = [k \in 1..Len(results) |-> AbstractLine(results[k].Abstract)]
               /\ bibtex' = [k \in 1..Len(results) |-> entries[k].val]
               /\ csvOffered' = (results # <<>>)
               /\ pc' = "done"
               /\ exc' = exc
          ELSE /\ pc' = "crashed"
               /\ exc' = "IndexError"
               /\ UNCHANGED <<shown, bibtex, csvOffered>>
    /\ UNCHANGED <<pressed, query, search_type, num_results, provLen, pulled, count,
                   i, results, web_results, warning, scholarInvoked, ddgsInvoked, fn>>

\* the number of records ddgs.text(query, max_results=n) yields from an index of n_index
DdgsCount(n_index, max_results) == Min(n_index, max_results)

\* web_results = [r for r in ddgs.text(query, max_results=num_results)]
WebSearch ==
    /\ pc = "web"
    /\ ddgsInvoked' = TRUE
    /\ web_results' \in [1..DdgsCount(provLen, num_results) -> WebIndex]
    /\ pulled' = DdgsCount(provLen, num_results)
    /\ pc' = "webdisplay"
    /\ UNCHANGED <<pressed, query, search_type, num_results, provLen, count, i,
                   results, exc, warning, scholarInvoked, shown, bibtex, csvOffered, fn>>

\* for result in web_results: ...; if web_results: CSV download button
WebDisplay ==
    /\ pc = "webdisplay"
    /\ shown' = [k \in 1..Len(web_results) |-> SnippetLine(web_results[k].body)]
    /\ csvOffered' = (web_results # <<>>)
    /\ pc' = "done"
    /\ UNCHANGED <<pressed, query, search_type, num_results, provLen, pulled, count,
                   i, results, web_results, exc, warning, scholarInvoked, ddgsInvoked,
                   bibtex, fn>>

Next ==
    \/ \E q \in Queries, st \in SearchTypes, n \in MinNumResults..MaxNumResults :
         Press(q, st, n)
    \/ ForNext
    \/ CheckLimit
    \/ InnerNext
    \/ Display
    \/ WebSearch
    \/ WebDisplay

Spec == Init /\ [][Next]_vars

(***************************************************************************)
(* Function harness: normalization, rendering and generate_bibtex applied  *)
(* to one raw record drawn from a product of field values, each field      *)
(* absent, empty or present.                                               *)
(***************************************************************************)
\* largest ordinal handed to generate_bibtex by the harness
MaxOrdinal == 12

S_DL == <<"{", "D", "L", "}">>
S_Goodfellow == <<"G", "o", "o", "d", "f", "e", "l", "l", "o", "w">>
S_IanGoodfellow == <<"I", "a", "n", " ">> \o S_Goodfellow
S_YoshuaBengio == <<"Y", "o", "s", "h", "u", "a", " ", "B", "e", "n", "g", "i", "o">>
S_Padded == <<" ", "A", "n", "n", " ", " ", "L", "e", "e", "\t">>
S_Eprint == <<"h", "t", "t", "p", ":", "/", "/", "e">>
S_PubUrl == <<"h", "t", "t", "p", ":", "/", "/", "p">>

\* the dicts that hold key k with one of the values, or do not hold it
Opt(k, values) == {NoDict} \cup {k :> v : v \in values}

FnTitles == {Empty, S_DL}
FnAuthors == {PyList(<<>>), PyList(<<S_IanGoodfellow, S_YoshuaBengio>>),
              PyList(<< <<" ">> >>), PyList(<<Empty, S_BobSmith>>),
              PyList(<< <<"C", "h", "e", "r">> >>), PyList(<<S_Padded>>), PyNone}
FnYears == {PyStr(S_NA), PyInt(2016), PyStr(<<"1", "9", "9", "9">>)}
FnAbstracts == {Empty, Text(AbstractLimit, "a"), Text(AbstractLimit + 1, "a")}
FnEprints == {Empty, S_Eprint}
FnPubUrls == {Empty, S_PubUrl}
FnCitations == {50000}
FnBodies == {Empty, <<"a", "b", "c">>, Text(SnippetLimit, "b"),
             Text(SnippetLimit + 1, "b"), Text(SnippetLimit + 10, "b")}

FnBibs ==
    {t @@ a @@ y @@ ab : t \in Opt("title", FnTitles), a \in Opt("author", FnAuthors),
                         y \in Opt("pub_year", FnYears),
                         ab \in Opt("abstract", FnAbstracts)}
FnPubs ==
    {b @@ e @@ u @@ c : b \in Opt("bib", FnBibs), e \in Opt("eprint_url", FnEprints),
                        u \in Opt("pub_url", FnPubUrls),
                        c \in Opt("num_citations", FnCitations)}
FnWebRecords == {[title |-> <<"X">>, body |-> b, href |-> S_Url] : b \in FnBodies}

FnInput(kind, raw) ==
    [step |-> "input", kind |-> kind, raw |-> raw, norm |-> Ok(NoDict), text |-> Empty,
     line |-> Empty, ordinal |-> 0, entry |-> Ok(NoDict)]

InitFn ==
    /\ pc = "done"
    /\ pressed = FALSE
    /\ query = Empty
    /\ search_type = Scholar
    /\ num_results = 5
    /\ provLen = 0
    /\ pulled = 0
    /\ count = 0
    /\ i = 0
    /\ results = <<>>
    /\ web_results = <<>>
    /\ exc = "none"
    /\ warning = FALSE
    /\ scholarInvoked = FALSE
    /\ ddgsInvoked = FALSE
    /\ shown = <<>>
    /\ bibtex = <<>>
    /\ csvOffered = FALSE
    /\ fn \in {FnInput("academic", p) : p \in FnPubs}
              \cup {FnInput("web", w) : w \in FnWebRecords}

flow == <<pc, pressed, query, search_type, num_results, provLen, pulled, count, i,
          results, web_results, exc, warning, scholarInvoked, ddgsInvoked, shown,
          bibtex, csvOffered>>

\* the dict of results.append, built from the raw record
FnNormalize ==
    /\ fn.step = "input"
    /\ fn.kind = "academic"
    /\ LET r == NormalizeScholar(fn.raw)
       IN fn' = [fn EXCEPT !.norm = r, !.step = IF r.ok THEN "normalized" ELSE "raised"]
    /\ UNCHANGED flow

\* the abstract as the display loop writes it
FnRender ==
    /\ fn.step = "normalized"
    /\ fn' = [fn EXCEPT !.text = AbstractText(fn.norm.val.Abstract),
                        !.line = AbstractLine(fn.norm.val.Abstract),
                        !.step = "rendered"]
    /\ UNCHANGED flow

\* generate_bibtex(result, idx)
FnBibtex(o) ==
    /\ fn.step = "rendered"
    /\ fn.kind = "academic"
    /\ LET e == generate_bibtex(fn.norm.val, o)
       IN fn' = [fn EXCEPT !.entry = e, !.ordinal = o,
                           !.step = IF e.ok THEN "keyed" ELSE "raised"]
    /\ UNCHANGED flow

\* the snippet as the web display loop writes it
FnSnippet ==
    /\ fn.step = "input"
    /\ fn.kind = "web"
    /\ fn' = [fn EXCEPT !.text = SnippetText(fn.raw.body),
                        !.line = SnippetLine(fn.raw.body),
                        !.step = "rendered"]
    /\ UNCHANGED flow

NextFn ==
    \/ FnNormalize
    \/ FnRender
    \/ \E o \in 0..MaxOrdinal : FnBibtex(o)
    \/ FnSnippet

SpecFn == InitFn /\ [][NextFn]_vars

(***************************************************************************)
(* Properties of the script run (checked under Spec).                      *)
(***************************************************************************)

\* C1: a query with a non-empty text returns exactly min(N, MaxResults) results,
\* N the length of the provider's sequence, for the academic and the web provider.
C1_ExactlyMinResults ==
    (pc = "done" /\ pressed /\ query # Empty) =>
        (IF search_type = Scholar THEN Len(results) ELSE Len(web_results))
            = Min(provLen, num_results)

\* C2: during an academic query the number of items taken from the provider's
\* iterator never exceeds MaxResults.
C2_PullsAtMostMaxResults ==
    (pressed /\ query # Empty /\ search_type = Scholar) => pulled <= num_results

\* C3: pressing Search with an empty query only raises the warning: no provider is
\* invoked, nothing is fetched, and no result list, entry or export is produced.
C3_EmptyQueryIsNoOp ==
    (pressed /\ query = Empty) =>
        /\ warning
        /\ pc = "done"
        /\ exc = "none"
        /\ ~scholarInvoked
        /\ ~ddgsInvoked
        /\ pulled = 0
        /\ results = <<>>
        /\ web_results = <<>>
        /\ shown = <<>>
        /\ bibtex = <<>>
        /\ ~csvOffered

C3_Witness == pressed /\ query = Empty /\ warning /\ pc = "done"

\* C4: a record whose normalization fails is skipped and the query goes on: no run
\* is ended by the failure of a normalization.
C4_MalformedRecordOnlySkipped == ~(pc = "crashed" /\ exc = "TypeError")

\* C5: when the academic sequence is found exhausted, by the for statement or by the
\* inner next, the fetch loop ends with the records collected so far and no error.
C5_ExhaustionEndsNormally ==
    [][(pc \in {"for", "inner"} /\ pulled = provLen) =>
           (pc' = "display" /\ results' = results /\ exc' = "none")]_vars

\* exhaustion met by the inner next (an odd number of pulls) before the limit
C5_Witness ==
    /\ pc = "display"
    /\ pulled = provLen
    /\ provLen % 2 = 1
    /\ results # <<>>
    /\ Len(results) < num_results
    /\ exc = "none"

\* C6: in a batch the citation keys of two results at different positions differ.
C6_KeysUniqueInBatch ==
    \A a, b \in 1..Len(bibtex) : a # b => bibtex[a].key # bibtex[b].key

\* a full batch holding the same first author and year twice, and the record whose
\* year is one digit shorter
C6_Witness ==
    /\ pc = "done"
    /\ Len(bibtex) = MaxNumResults
    /\ results[1].Authors = results[2].Authors
    /\ results[1].Year = results[2].Year
    /\ \E k \in 1..Len(results) : results[k].Year # results[1].Year

(***************************************************************************)
(* Properties of the functions (checked under SpecFn).                     *)
(***************************************************************************)
FnNormalized == fn.kind = "academic" /\ fn.step \in {"normalized", "rendered", "keyed"}

\* C7: text no longer than the limit (200 for an abstract, 150 for a snippet) is shown
\* as received with no ellipsis; longer text is cut to the limit and suffixed "...".
C7_ShortTextUnchanged ==
    (fn.step = "rendered") =>
        LET src == IF fn.kind = "academic" THEN fn.norm.val.Abstract ELSE fn.raw.body
            limit == IF fn.kind = "academic" THEN AbstractLimit ELSE SnippetLimit
        IN fn.text = IF Len(src) <= limit THEN src
                     ELSE SubSeq(src, 1, limit) \o S_Ellipsis

\* C8: URL is the first non-empty of the e-print link and the publication-page link,
\* and "N/A" when both are missing or empty.
C8_UrlFirstNonEmpty ==
    FnNormalized =>
        LET e == IF "eprint_url" \in DOMAIN fn.raw THEN fn.raw["eprint_url"] ELSE Empty
            u == IF "pub_url" \in DOMAIN fn.raw THEN fn.raw["pub_url"] ELSE Empty
        IN fn.norm.val.URL = IF e # Empty THEN e ELSE IF u # Empty THEN u ELSE S_NA

\* C9: every normalized result has a non-empty Title.
C9_TitleNonEmpty == FnNormalized => fn.norm.val.Title # Empty

\* the first author of an Authors text: what precedes its first ", "
FirstOf(authors) ==
    LET seps == {k \in 1..(Len(authors) - 1) : authors[k] = "," /\ authors[k + 1] = " "}
    IN IF seps = {} THEN authors
       ELSE SubSeq(authors, 1, (CHOOSE k \in seps : \A m \in seps : k <= m) - 1)

NonSpace(s) == {k \in 1..Len(s) : ~IsSpace(s[k])}

\* the last whitespace-separated word of a text that has one
LastWordOf(s) ==
    LET last == CHOOSE k \in NonSpace(s) : \A m \in NonSpace(s) : m <= k
        starts == {k \in 1..last : \A m \in k..last : m \in NonSpace(s)}
        first == CHOOSE k \in starts : \A m \in starts : k <= m
    IN SubSeq(s, first, last)

DigitValue(c) == CHOOSE d \in 0..9 : Digit(d) = c

\* s is the decimal numeral of k
RECURSIVE NumeralValue(_)
NumeralValue(s) ==
    IF s = <<>> THEN 0 ELSE 10 * NumeralValue(SubSeq(s, 1, Len(s) - 1)) + DigitValue(s[Len(s)])
IsNumeralOf(s, k) ==
    /\ s # <<>>
    /\ \A j \in 1..Len(s) : \E d \in 0..9 : Digit(d) = s[j]
    /\ Len(s) > 1 => s[1] # "0"
    /\ NumeralValue(s) = k

\* C10: the citation key is the last whitespace-separated word of the first author
\* ("unknown" when there is no first author text), then the year ("unknown" when Year
\* is "N/A"), then the ordinal.
C10_KeyFormat ==
    (fn.kind = "academic" /\ fn.step = "keyed") =>
        LET result == fn.norm.val
            key == fn.entry.val.key
            first == FirstOf(result.Authors)
            name == IF first = Empty THEN S_unknown ELSE LastWordOf(first)
            IsYear(y) == IF result.Year = PyStr(S_NA) THEN y = S_unknown
                         ELSE IF result.Year.t = "str" THEN y = result.Year.s
                         ELSE IsNumeralOf(y, result.Year.n)
        IN /\ (result.Authors = Empty => name = S_unknown)
           /\ \E m \in 0..Len(key), n \in 0..Len(key) :
                /\ m <= n
                /\ SubSeq(key, 1, m) = name
                /\ IsYear(SubSeq(key, m + 1, n))
                /\ IsNumeralOf(SubSeq(key, n + 1, Len(key)), fn.ordinal)

\* the example: "Ian Goodfellow, Yoshua Bengio", 2016, ordinal 0
C10_Witness ==
    /\ fn.kind = "academic"
    /\ fn.step = "keyed"
    /\ fn.norm.val.Authors = S_IanGoodfellow \o S_CommaSpace \o S_YoshuaBengio
    /\ fn.norm.val.Year = PyInt(2016)
    /\ fn.ordinal = 0
    /\ fn.entry.val.key = S_Goodfellow \o <<"2", "0", "1", "6", "0">>

====
